---- MODULE Spec2Model ----
\* Model of the sandboxed executor (src/src/executor.py) and of the retry
\* orchestration of RAGPipeline.ask (src/src/pipeline.py).
\*
\* Candidate code is text: a sequence of lines, each line a sequence of
\* lexemes (the pieces of text the executor's string tests can tell apart).
\* The host interpreter's ast.parse / exec / eval are modelled on the small
\* statement language those lexemes spell.
EXTENDS Integers, Sequences, FiniteSets, TLC

\* ------------------------------------------------------------------ bounds
MaxLines == 2
MaxRetries == 2
MaxQuestions == 2
MaxSize == 3
MaxRowsArg == 2

\* ------------------------------------------------------------------ values
\* None of the host language; also the "no error" of Optional[str].
None == "<None>"

NoneV == [kind |-> "NoneType", int |-> 0, ref |-> ""]
Unbound == [kind |-> "<unbound>", int |-> 0, ref |-> ""]
IntV(n) == [kind |-> "int", int |-> n, ref |-> ""]
\* A DataFrame value is a reference to the table object of that name.
FrameV(t) == [kind |-> "DataFrame", int |-> 0, ref |-> t]
\* A function object whose body reads the name n.
FuncV(n) == [kind |-> "function", int |-> 0, ref |-> n]
\* A float: h hundredths when special is "", else the special value it is.
FloatV(h, special) == [kind |-> "float", int |-> h, ref |-> special]
\* A Series of n items.
SeriesV(n) == [kind |-> "Series", int |-> n, ref |-> ""]
\* A list of n elements: integers when elem is "", else n references to the
\* table elem.
ListV(n, elem) == [kind |-> "list", int |-> n, ref |-> elem]

\* -------------------------------------------------------------------- text
BLOCKED_PATTERNS ==
    << "__import__", "exec(", "eval(", "open(", "os.", "sys.", "subprocess",
       "file(", "input(", "__builtins__", "__class__", "__bases__",
       "__subclasses__", "getattr", "setattr", "delattr", "globals", "locals",
       "compile" >>

\* The names of the allow-listed builtins.
SAFE_BUILTINS ==
    { "len", "str", "int", "float", "bool", "list", "dict", "tuple", "set",
      "sum", "min", "max", "abs", "round", "sorted", "enumerate", "zip",
      "range", "True", "False", "None" }

SAFE_IMPORTS == << "datetime", "timedelta", "pd", "np", "pandas", "numpy" >>

\* Expressions of the statement language. "'\\ud800'" stands for a string
\* literal that holds the lone surrogate character U+D800 itself.
ExprLex ==
    { "0", "1", "None", "y", "clients_df", "f()", "(lambda: y)()", "1/0",
      "OS.system('ls')", "'\\ud800'", "float('nan')" }

\* str.lower() of one lexeme.
Lower(lex) ==
    CASE lex = "OS.system('ls')" -> "os.system('ls')"
      [] lex = "None" -> "none"
      [] lex = "pd.errors.EmptyDataError.__mro__[3]()" ->
            "pd.errors.emptydataerror.__mro__[3]()"
      [] OTHER -> lex

\* Python's `pat in lex` for the patterns the executor searches for.
Occurs(pat, lex) ==
    \/ pat = lex
    \/ pat = "os." /\ lex = "os.system('ls')"
    \/ pat = "pd" /\ lex \in {"pd.errors.EmptyDataError.__mro__[3]()",
                              "pd.errors.emptydataerror.__mro__[3]()"}

\* `pat in text` for a text made of lexemes.
InText(pat, text) == \E i \in 1..Len(text) : Occurs(pat, text[i])

LowerText(text) == [i \in 1..Len(text) |-> Lower(text[i])]

RECURSIVE Flatten(_)
\* '\n'.join(lines) seen as one run of lexemes (line breaks carry no pattern).
Flatten(lines) ==
    IF lines = << >> THEN << >> ELSE Head(lines) \o Flatten(Tail(lines))

IsSpace(lex) == lex = " "

RECURSIVE LStrip(_)
LStrip(line) ==
    IF line # << >> /\ IsSpace(Head(line)) THEN LStrip(Tail(line)) ELSE line

RECURSIVE RStrip(_)
RStrip(line) ==
    IF line # << >> /\ IsSpace(line[Len(line)])
    THEN RStrip(SubSeq(line, 1, Len(line) - 1)) ELSE line

\* str.strip()
Strip(line) == RStrip(LStrip(line))

\* The lines a candidate code is made of.
Lines ==
    {<< "x", "=", e >> : e \in ExprLex} \cup {<< e >> : e \in ExprLex} \cup
    { << "y", "=", "1" >>,
      << "def f(): return ", "y" >>,
      << "clients_df", "['flag']", "=", "1" >>,
      << "y", "+=", "1" >>,
      << "raise ", "pd.errors.EmptyDataError.__mro__[3]()" >>,
      << "import ", "pandas" >>,
      << "import ", "subprocess", ",", "numpy" >>,
      << "import ", "json" >>,
      << " ", "import ", "pd" >>,
      << "x", "=" >>,
      << >> }

RECURSIVE SeqsUpTo(_, _)
SeqsUpTo(S, n) ==
    IF n = 0 THEN { << >> }
    ELSE LET shorter == SeqsUpTo(S, n - 1)
         IN  shorter \cup {Append(p, s) : p \in shorter, s \in S}

\* Every candidate code of at most MaxLines lines.
Programs == SeqsUpTo(Lines, MaxLines)

\* ----------------------------------------------------------- strip_imports
IsSafeImportLine(line) ==
    LET stripped == Strip(line)
    IN  /\ stripped # << >>
        /\ Head(stripped) \in {"import ", "from "}
        /\ \E i \in 1..Len(SAFE_IMPORTS) : InText(SAFE_IMPORTS[i], stripped)

KeepLine(line) == ~IsSafeImportLine(line)

strip_imports(code) == SelectSeq(code, KeepLine)

\* --------------------------------------------------------------- ast.parse
\* The statement one line spells; kind "invalid" when it spells none.
ParseLine(line) ==
    CASE line = << >> ->
            [kind |-> "blank", target |-> "", expr |-> ""]
      [] Len(line) >= 1 /\ IsSpace(line[1]) ->
            [kind |-> "invalid", target |-> "", expr |-> "unexpected indent"]
      [] Len(line) = 1 /\ line[1] \in ExprLex ->
            [kind |-> "Expr", target |-> "", expr |-> line[1]]
      [] Len(line) = 3 /\ line[2] = "=" /\ line[3] \in ExprLex ->
            [kind |-> "Assign", target |-> line[1], expr |-> line[3]]
      [] Len(line) = 4 /\ line[3] = "=" /\ line[4] \in ExprLex ->
            [kind |-> "AssignSubscript", target |-> line[1], expr |-> line[4]]
      [] Len(line) = 3 /\ line[2] = "+=" /\ line[3] \in ExprLex ->
            [kind |-> "AugAssign", target |-> line[1], expr |-> line[3]]
      [] Len(line) = 2 /\ line[1] = "def f(): return " ->
            [kind |-> "FunctionDef", target |-> "f", expr |-> line[2]]
      [] Len(line) = 2 /\ line[1] = "raise " ->
            [kind |-> "Raise", target |-> "", expr |-> line[2]]
      [] Len(line) >= 2 /\ line[1] = "import " ->
            [kind |-> "Import", target |-> "", expr |-> line[2]]
      [] OTHER ->
            [kind |-> "invalid", target |-> "", expr |-> "invalid syntax"]

\* A lone surrogate cannot be encoded for the parser: ast.parse raises
\* UnicodeEncodeError, which is not a SyntaxError.
HasSurrogate(code) == InText("'\\ud800'", Flatten(code))

\* ast.parse(code): exc is "" and body the statements, or exc names the
\* exception raised and msg its message.
AstParse(code) ==
    LET stmts == [i \in 1..Len(code) |-> ParseLine(code[i])]
        IsBad(s) == s.kind = "invalid"
        IsStmt(s) == s.kind # "blank"
        bad == SelectSeq(stmts, IsBad)
    IN  IF HasSurrogate(code)
        THEN [exc |-> "UnicodeEncodeError",
              msg |-> "'utf-8' codec can't encode character '\\ud800'",
              body |-> << >>]
        ELSE IF bad # << >>
        THEN [exc |-> "SyntaxError", msg |-> bad[1].expr, body |-> << >>]
        ELSE [exc |-> "", msg |-> "", body |-> SelectSeq(stmts, IsStmt)]

\* ----------------------------------------------------------- validate_code
\* The first deny-listed pattern found in the lowered text, or 0.
FirstBlocked(code) ==
    LET code_lower == LowerText(Flatten(code))
        hits == {i \in 1..Len(BLOCKED_PATTERNS) :
                    InText(Lower(BLOCKED_PATTERNS[i]), code_lower)}
    IN  IF hits = {} THEN 0 ELSE CHOOSE i \in hits : \A j \in hits : i <= j

\* (is_valid, reason), or the exception ast.parse lets through.
validate_code(code) ==
    LET hit == FirstBlocked(code)
        tree == AstParse(code)
    IN  IF hit # 0
        THEN [is_valid |-> FALSE,
              error |-> "Unsafe pattern detected: " \o BLOCKED_PATTERNS[hit],
              raised |-> ""]
        ELSE IF tree.exc = "SyntaxError"
        THEN [is_valid |-> FALSE,
              error |-> "Syntax error: " \o tree.msg,
              raised |-> ""]
        ELSE IF tree.exc # ""
        THEN [is_valid |-> FALSE, error |-> None, raised |-> tree.exc]
        ELSE [is_valid |-> TRUE, error |-> None, raised |-> ""]


\* ------------------------------------------------------------- table store
TableNames == {"clients_df", "invoices_df", "line_items_df"}

\* load_data: the tables as loaded (row count and column names).
LoadedTables ==
    [t \in TableNames |->
        IF t = "clients_df"
        THEN [rows |-> 1, cols |-> {"client_name", "country"}]
        ELSE IF t = "invoices_df"
        THEN [rows |-> 1, cols |-> {"invoice_id", "client_id"}]
        ELSE [rows |-> 1, cols |-> {"invoice_id", "service_name"}]]

\* --------------------------------------------------------- execution scope
LibraryNames == {"pd", "np", "datetime", "timedelta"}
ScopeNames == {"x", "y", "f"} \cup TableNames \cup LibraryNames

\* exec_globals as execute_code builds it: library handles, then the tables
\* themselves (the objects of the store, not copies).
NewGlobals(dataframes) ==
    [n \in ScopeNames |->
        IF n \in DOMAIN dataframes THEN FrameV(n)
        ELSE IF n \in LibraryNames THEN [kind |-> "module", int |-> 0, ref |-> n]
        ELSE Unbound]

NewLocals == [n \in ScopeNames |-> Unbound]

\* dict.get(name): None when the key is absent.
Get(d, n) == IF d[n] = Unbound THEN NoneV ELSE d[n]

\* exec_globals.update(exec_locals)
Update(g, l) == [n \in ScopeNames |-> IF l[n] # Unbound THEN l[n] ELSE g[n]]

\* Name lookup. Code run by exec/eval with separate globals and locals sees
\* both at its top level; a nested scope (function body, lambda) sees only
\* the globals.
Lookup(env, n, nested) ==
    IF ~nested /\ env.l[n] # Unbound THEN env.l[n] ELSE env.g[n]

NameError(n) == [val |-> NoneV, exc |-> "NameError",
                 msg |-> "name '" \o n \o "' is not defined"]

EvalName(env, n, nested) ==
    IF n \in ScopeNames /\ Lookup(env, n, nested) # Unbound
    THEN [val |-> Lookup(env, n, nested), exc |-> "", msg |-> ""]
    ELSE NameError(n)

\* The value of expression e, or the exception it raises.
Eval(env, e) ==
    CASE e = "0" -> [val |-> IntV(0), exc |-> "", msg |-> ""]
      [] e = "1" -> [val |-> IntV(1), exc |-> "", msg |-> ""]
      [] e = "None" -> [val |-> NoneV, exc |-> "", msg |-> ""]
      [] e \in {"y", "clients_df"} -> EvalName(env, e, FALSE)
      [] e = "(lambda: y)()" -> EvalName(env, "y", TRUE)
      [] e = "f()" ->
            LET f == EvalName(env, "f", FALSE)
            IN  IF f.exc # "" THEN f
                ELSE IF f.val.kind = "function"
                THEN EvalName(env, f.val.ref, TRUE)
                ELSE [val |-> NoneV, exc |-> "TypeError",
                      msg |-> "object is not callable"]
      [] e = "1/0" -> [val |-> NoneV, exc |-> "ZeroDivisionError",
                       msg |-> "division by zero"]
      [] e = "float('nan')" ->
            IF "float" \in SAFE_BUILTINS
            THEN [val |-> FloatV(0, "nan"), exc |-> "", msg |-> ""]
            ELSE NameError("float")
      [] OTHER -> NameError("os")

Fail(env, exc, msg) == [env EXCEPT !.exc = exc, !.msg = msg]

\* Statement s in scope env, r being what its expression evaluates to.
Step(s, env, r) ==
    CASE s.kind = "Expr" ->
            IF r.exc # "" THEN Fail(env, r.exc, r.msg) ELSE env
      [] s.kind = "Assign" ->
            IF r.exc # "" THEN Fail(env, r.exc, r.msg)
            ELSE [env EXCEPT !.l[s.target] = r.val]
      [] s.kind = "AssignSubscript" ->
            LET t == EvalName(env, s.target, FALSE)
            IN  IF r.exc # "" THEN Fail(env, r.exc, r.msg)
                ELSE IF t.exc # "" THEN Fail(env, t.exc, t.msg)
                ELSE IF t.val.kind = "DataFrame"
                THEN [env EXCEPT !.df[t.val.ref].cols = @ \cup {"flag"}]
                ELSE Fail(env, "TypeError",
                          "object does not support item assignment")
      [] s.kind = "AugAssign" ->
            LET t == EvalName(env, s.target, FALSE)
            IN  IF t.exc # "" THEN Fail(env, t.exc, t.msg)
                ELSE IF r.exc # "" THEN Fail(env, r.exc, r.msg)
                ELSE IF t.val.kind = "int" /\ r.val.kind = "int"
                THEN [env EXCEPT !.l[s.target] = IntV(t.val.int + r.val.int)]
                ELSE Fail(env, "TypeError", "unsupported operand type(s) for +=")
      [] s.kind = "FunctionDef" ->
            [env EXCEPT !.l[s.target] = FuncV(s.expr)]
      [] s.kind = "Raise" -> Fail(env, "BaseException", "")
      [] OTHER -> Fail(env, "ImportError", "__import__ not found")

\* One statement run in the scope env.
ExecStmt(s, env) == Step(s, [env EXCEPT !.ran = @ + 1], Eval(env, s.expr))

RECURSIVE Exec(_, _)
\* exec(body, globals, locals): statements in order, up to the first raise.
Exec(body, env) ==
    IF body = << >> \/ env.exc # "" THEN env
    ELSE Exec(Tail(body), ExecStmt(Head(body), env))

\* bool(v); a DataFrame has no truth value (ValueError).
Truthy(v) ==
    CASE v.kind = "int" -> v.int # 0
      [] v.kind = "NoneType" -> FALSE
      [] OTHER -> TRUE

\* ------------------------------------------------------------ execute_code
Returned(result, error, env, validated) ==
    [result |-> result, error |-> error, raised |-> "",
     dataframes |-> env.df, ran |-> env.ran, validated |-> validated]

Escaped(exc, env, validated) ==
    [result |-> NoneV, error |-> None, raised |-> exc,
     dataframes |-> env.df, ran |-> env.ran, validated |-> validated]

\* Caught handing back, with the error, the value x was bound to so far.
Caught_KeepsValue(env) ==
    IF env.exc = "BaseException" THEN Escaped(env.exc, env, TRUE)
    ELSE Returned(Get(env.l, "x"), env.exc \o ": " \o env.msg, env, TRUE)

\* except Exception as e: return None, f"{type(e).__name__}: {str(e)}"
\* (an exception that is no Exception passes through).
Caught(env) ==
    IF env.exc = "BaseException" THEN Escaped(env.exc, env, TRUE)
    ELSE Returned(NoneV, env.exc \o ": " \o env.msg, env, TRUE)

\* exec_globals.update(exec_locals) after an exec.
Merged(env) == [env EXCEPT !.g = Update(env.g, env.l)]

\* result = exec_locals.get(var_name) or exec_globals.get(var_name)
ReadBack(var_name, env) ==
    IF Get(env.l, var_name).kind = "DataFrame"
    THEN Caught(Fail(env, "ValueError",
                     "The truth value of a DataFrame is ambiguous"))
    ELSE Returned(IF Truthy(Get(env.l, var_name)) THEN Get(env.l, var_name)
                  ELSE Get(env.g, var_name),
                  None, env, TRUE)

\* The assignment-tail branch, ran being the scope after exec of the code.
AssignTail(last_stmt, ran) ==
    IF ran.exc # "" THEN Caught(ran)
    ELSE IF last_stmt.kind = "Assign" THEN ReadBack(last_stmt.target, Merged(ran))
    ELSE Returned(NoneV, None, Merged(ran), TRUE)

\* eval(last_expr) gave r in scope env.
Evaluated(r, env) ==
    IF r.exc # "" THEN Caught(Fail(env, r.exc, r.msg))
    ELSE Returned(r.val, None, env, TRUE)

\* The expression-tail branch, ran being the scope after exec of the setup.
ExprTail(last_stmt, ran) ==
    IF ran.exc # "" THEN Caught(ran)
    ELSE Evaluated(Eval(ran, last_stmt.expr), [ran EXCEPT !.ran = @ + 1])

\* OtherTail that returns the variable the code bound last.
OtherTail_ReturnsLastLocal(ran) ==
    IF ran.exc # "" THEN Caught(ran)
    ELSE Returned(Get(ran.l, "y"), None, ran, TRUE)

\* Any other tail statement, ran being the scope after exec of the code.
OtherTail(ran) ==
    IF ran.exc # "" THEN Caught(ran) ELSE Returned(NoneV, None, ran, TRUE)

NewEnv(dataframes) ==
    [g |-> NewGlobals(dataframes), l |-> NewLocals, df |-> dataframes,
     exc |-> "", msg |-> "", ran |-> 0]

\* The try block of execute_code on the statements of validated code.
RunBody(body, env0) ==
    IF body = << >> THEN Returned(NoneV, "Empty code", env0, TRUE)
    ELSE IF body[Len(body)].kind \in {"Assign", "AssignSubscript"}
    THEN AssignTail(body[Len(body)], Exec(body, env0))
    ELSE IF body[Len(body)].kind = "Expr"
    THEN ExprTail(body[Len(body)],
                  IF Len(body) > 1
                  THEN Merged(Exec(SubSeq(body, 1, Len(body) - 1), env0))
                  ELSE env0)
    ELSE OtherTail(Exec(body, env0))

\* RunValidated without the return on a rejecting verdict.
RunValidated_IgnoresVerdict(v, code, env0) ==
    IF v.raised # "" THEN Escaped(v.raised, env0, FALSE)
    ELSE RunBody(AstParse(code).body, env0)

\* execute_code after strip_imports, v being validate_code's answer.
RunValidated(v, code, env0) ==
    IF v.raised # "" THEN Escaped(v.raised, env0, FALSE)
    ELSE IF ~v.is_valid THEN Returned(NoneV, v.error, env0, FALSE)
    ELSE RunBody(AstParse(code).body, env0)

execute_code(code, dataframes) ==
    RunValidated(validate_code(strip_imports(code)), strip_imports(code),
                 NewEnv(dataframes))

\* ----------------------------------------------------------- format_result
DefaultMaxRows == 20

\* DataFrame.head(k) / Series.head(k) of n entries: the first k of them, or
\* all but the last -k when k is negative.
HeadCount(n, k) ==
    IF k >= 0 THEN (IF n < k THEN n ELSE k)
    ELSE (IF n + k > 0 THEN n + k ELSE 0)

\* What a format_result call did: the text it returned and the number of
\* entries in the body of that text, or the exception it raised.
Formatted(text, entries) == [text |-> text, entries |-> entries, raised |-> ""]
FormatRaised(exc) == [text |-> "", entries |-> 0, raised |-> exc]
NoFormat == Formatted("", 0)

\* FormatSized that truncates already when n = max_rows: `len(result) >= max_rows`.
FormatSized_TruncatesAtEqual(label, unit, n, max_rows) ==
    IF n >= max_rows
    THEN Formatted(label \o " with " \o ToString(n) \o " " \o unit
                       \o " (showing first " \o ToString(max_rows) \o "):",
                   HeadCount(n, max_rows))
    ELSE Formatted(label \o " with " \o ToString(n) \o " " \o unit \o ":", n)

\* The DataFrame and the Series branch: n entries called unit.
FormatSized(label, unit, n, max_rows) ==
    IF n > max_rows
    THEN Formatted(label \o " with " \o ToString(n) \o " " \o unit
                       \o " (showing first " \o ToString(max_rows) \o "):",
                   HeadCount(n, max_rows))
    ELSE Formatted(label \o " with " \o ToString(n) \o " " \o unit \o ":", n)

RECURSIVE Joined(_, _, _)
\* sep.join of n copies of text.
Joined(sep, text, n) ==
    IF n = 1 THEN text ELSE text \o sep \o Joined(sep, text, n - 1)

RECURSIVE IntList(_)
\* The elements of str([1, ..., n]).
IntList(n) ==
    IF n = 0 THEN "" ELSE IF n = 1 THEN "1"
    ELSE IntList(n - 1) \o ", " \o ToString(n)

\* f"{x:.2f}" of h hundredths.
TwoDecimals(h) ==
    LET a == IF h < 0 THEN 0 - h ELSE h
    IN  (IF h < 0 THEN "-" ELSE "") \o ToString(a \div 100) \o "."
            \o ToString((a % 100) \div 10) \o ToString(a % 10)

format_result(value, max_rows, tables) ==
    IF value = NoneV THEN Formatted("No result", 0)
    ELSE IF value.kind = "DataFrame"
    THEN FormatSized("DataFrame", "rows", tables[value.ref].rows, max_rows)
    ELSE IF value.kind = "Series"
    THEN FormatSized("Series", "items", value.int, max_rows)
    ELSE IF value.kind = "list" /\ value.int > 0
    THEN IF value.ref # ""
         THEN Formatted(Joined("\n\n",
                               FormatSized("DataFrame", "rows",
                                           tables[value.ref].rows, max_rows).text,
                               value.int),
                        value.int * FormatSized("DataFrame", "rows",
                                                tables[value.ref].rows,
                                                max_rows).entries)
         ELSE Formatted("[" \o IntList(value.int) \o "]", value.int)
    ELSE IF value.kind = "float"
    THEN IF value.ref = "nan" THEN FormatRaised("ValueError")
         ELSE IF value.ref # "" THEN FormatRaised("OverflowError")
         ELSE IF value.int % 100 = 0
         THEN Formatted(ToString(value.int \div 100), 0)
         ELSE Formatted(TwoDecimals(value.int), 0)
    ELSE IF value.kind = "int" THEN Formatted(ToString(value.int), 0)
    ELSE IF value.kind = "list" THEN Formatted("[]", 0)
    ELSE Formatted("<" \o value.kind \o ">", 0)

\* ---------------------------------------------------------------- pipeline
VARIABLES
    max_retries,    \* RAGPipeline.max_retries
    dataframes,     \* RAGPipeline.dataframes, the table store
    pc,             \* where ask stands
    question,       \* number of the question being answered
    code,           \* ask's local: the current candidate code
    attempt,        \* ask's local: the loop variable
    result,         \* ask's local
    error,          \* ask's local
    ret,            \* the PipelineResult ask returned last
    terminal,       \* the terminal state the last ask ended in
    out,            \* what the last execute_code call did
    executed,       \* the code the last execute_code call was given
    fb,             \* the arguments of the last regeneration call
    calls,          \* the collaborators called for this question
    nExec,          \* execute_code calls of this question
    nRegen,         \* generate_code_with_error_feedback calls of this question
    max_rows,       \* the max_rows argument of format_result
    formatted       \* what the last format_result call did

vars == << max_retries, dataframes, pc, question, code, attempt, result, error,
           ret, terminal, out, executed, fb, calls, nExec, nRegen, max_rows,
           formatted >>

\* Optional values that are not strings: << >> is None, << v >> is v.
Some(v) == << v >>
Nothing == << >>

NoOut == [result |-> NoneV, error |-> None, raised |-> "",
          dataframes |-> LoadedTables, ran |-> 0, validated |-> FALSE]
NoFb == [previous_code |-> Nothing, error_message |-> None]

PipelineResult(q, answer, generated_code, raw_result, formatted_result, success, err, stage2_prompt) ==
    [question |-> q, answer |-> answer, generated_code |-> generated_code,
     raw_result |-> raw_result, formatted_result |-> formatted_result,
     success |-> success, error |-> err,
     stage1_prompt |-> "stage1", stage2_prompt |-> stage2_prompt]

NoResult == PipelineResult(0, "", Nothing, NoneV, Nothing, TRUE, None, None)

\* What the generator may answer with: code of every outcome class.
Candidates ==
    { << << "clients_df" >> >>,
      << << "x", "=", "0" >> >>,
      << << "y" >> >>,
      << << "1/0" >> >>,
      << << "OS.system('ls')" >> >>,
      << << "x", "=" >> >>,
      << << "y", "=", "1" >>, << "y", "+=", "1" >> >>,
      << << "clients_df", "['flag']", "=", "1" >> >>,
      << << "'\\ud800'" >> >>,
      << << "float('nan')" >> >>,
      << << "import ", "json" >> >>,
      << << "def f(): return ", "y" >> >> }

\* The message of the exception an unreachable model service raises.
ApiError == "Connection error."

RetryBudgets == (-1)..MaxRetries

Init ==
    /\ max_retries \in RetryBudgets
    /\ dataframes = LoadedTables
    /\ pc = "Idle"
    /\ question = 0
    /\ code = << >>
    /\ attempt = 0
    /\ result = NoneV
    /\ error = None
    /\ ret = NoResult
    /\ terminal = ""
    /\ out = NoOut
    /\ executed = Nothing
    /\ fb = NoFb
    /\ calls = {}
    /\ nExec = 0
    /\ nRegen = 0
    /\ max_rows = DefaultMaxRows
    /\ formatted = NoFormat

\* ask(question) is entered.
Ask ==
    /\ pc \in {"Idle", "Returned"}
    /\ question < MaxQuestions
    /\ question' = question + 1
    /\ pc' = "Generating"
    /\ code' = << >>
    /\ attempt' = 0
    /\ result' = NoneV
    /\ error' = None
    /\ terminal' = ""
    /\ out' = NoOut
    /\ executed' = Nothing
    /\ fb' = NoFb
    /\ calls' = {}
    /\ nExec' = 0
    /\ nRegen' = 0
    /\ formatted' = NoFormat
    /\ UNCHANGED << max_retries, max_rows, dataframes, ret >>

\* generate_pandas_code returns c; the loop is entered if range is not empty.
GenerateOk(c) ==
    /\ pc = "Generating"
    /\ code' = c
    /\ calls' = calls \cup {"generate_pandas_code"}
    /\ pc' = IF 0 < max_retries + 1 THEN "Executing" ELSE "Success"
    /\ UNCHANGED << max_retries, max_rows, formatted, dataframes, question, attempt, result, error,
                    ret, terminal, out, executed, fb, nExec, nRegen >>

\* GenerateFail without the early return: ask goes on into the loop.
GenerateFail_FallsThrough ==
    /\ pc = "Generating"
    /\ calls' = calls \cup {"generate_pandas_code"}
    /\ terminal' = "GenerationFailed"
    /\ pc' = "Executing"
    /\ UNCHANGED << max_retries, max_rows, formatted, dataframes, question, code, attempt, result,
                    error, ret, out, executed, fb, nExec, nRegen >>

\* generate_pandas_code raises: ask returns at once.
GenerateFail ==
    /\ pc = "Generating"
    /\ calls' = calls \cup {"generate_pandas_code"}
    /\ ret' = PipelineResult(question,
                             "Sorry, I couldn't generate code. Error: " \o ApiError,
                             Nothing, NoneV, Nothing, FALSE,
                             "Code generation failed: " \o ApiError, None)
    /\ terminal' = "GenerationFailed"
    /\ pc' = "Returned"
    /\ UNCHANGED << max_retries, max_rows, formatted, dataframes, question, code, attempt, result,
                    error, out, executed, fb, nExec, nRegen >>

\* Executed with the retry test off by one: `attempt <= self.max_retries`.
Executed_RetriesOnceMore(o) ==
    /\ out' = o
    /\ executed' = Some(code)
    /\ dataframes' = o.dataframes
    /\ calls' = calls \cup {"execute_code"}
    /\ nExec' = nExec + 1
    /\ IF o.raised # ""
       THEN /\ pc' = "Crashed"
            /\ terminal' = "Raised"
            /\ UNCHANGED << result, error >>
       ELSE /\ result' = o.result
            /\ error' = o.error
            /\ terminal' = terminal
            /\ pc' = IF o.error = None THEN "Success"
                     ELSE IF attempt <= max_retries THEN "Retrying"
                     ELSE "ExhaustedRetries"
    /\ UNCHANGED << max_retries, max_rows, formatted, question, code, attempt, ret, fb, nRegen >>

\* Executed with the loop one pass short: `range(self.max_retries)`.
Executed_StopsEarly(o) ==
    /\ out' = o
    /\ executed' = Some(code)
    /\ dataframes' = o.dataframes
    /\ calls' = calls \cup {"execute_code"}
    /\ nExec' = nExec + 1
    /\ IF o.raised # ""
       THEN /\ pc' = "Crashed"
            /\ terminal' = "Raised"
            /\ UNCHANGED << result, error >>
       ELSE /\ result' = o.result
            /\ error' = o.error
            /\ terminal' = terminal
            /\ pc' = IF o.error = None THEN "Success"
                     ELSE IF attempt + 1 < max_retries THEN "Retrying"
                     ELSE "ExhaustedRetries"
    /\ UNCHANGED << max_retries, max_rows, formatted, question, code, attempt, ret, fb, nRegen >>

\* The loop body after execute_code answered o, up to the regeneration call.
Executed(o) ==
    /\ out' = o
    /\ executed' = Some(code)
    /\ dataframes' = o.dataframes
    /\ calls' = calls \cup {"execute_code"}
    /\ nExec' = nExec + 1
    /\ IF o.raised # ""
       THEN /\ pc' = "Crashed"
            /\ terminal' = "Raised"
            /\ UNCHANGED << result, error >>
       ELSE /\ result' = o.result
            /\ error' = o.error
            /\ terminal' = terminal
            /\ pc' = IF o.error = None THEN "Success"
                     ELSE IF attempt < max_retries THEN "Retrying"
                     ELSE "ExhaustedRetries"
    /\ UNCHANGED << max_retries, max_rows, formatted, question, code, attempt, ret, fb, nRegen >>

\* One pass of the loop: result, error = execute_code(code, self.dataframes).
Execute ==
    /\ pc = "Executing"
    /\ Executed(execute_code(code, dataframes))

\* generate_code_with_error_feedback returns c; next loop iteration.
RegenerateOk(c) ==
    /\ pc = "Retrying"
    /\ fb' = [previous_code |-> Some(code), error_message |-> error]
    /\ calls' = calls \cup {"generate_code_with_error_feedback"}
    /\ nRegen' = nRegen + 1
    /\ code' = c
    /\ attempt' = attempt + 1
    /\ pc' = "Executing"
    /\ UNCHANGED << max_retries, max_rows, formatted, dataframes, question, result, error, ret,
                    terminal, out, executed, nExec >>

\* RegenerateFail that leaves the execution error in place.
RegenerateFail_KeepsExecutionError ==
    /\ pc = "Retrying"
    /\ fb' = [previous_code |-> Some(code), error_message |-> error]
    /\ calls' = calls \cup {"generate_code_with_error_feedback"}
    /\ nRegen' = nRegen + 1
    /\ pc' = "FixFailed"
    /\ UNCHANGED << max_retries, max_rows, formatted, dataframes, question, code, attempt, result,
                    error, ret, terminal, out, executed, nExec >>

\* generate_code_with_error_feedback raises: the loop is left.
RegenerateFail ==
    /\ pc = "Retrying"
    /\ fb' = [previous_code |-> Some(code), error_message |-> error]
    /\ calls' = calls \cup {"generate_code_with_error_feedback"}
    /\ nRegen' = nRegen + 1
    /\ error' = "Code fix failed: " \o ApiError
    /\ pc' = "FixFailed"
    /\ UNCHANGED << max_retries, max_rows, formatted, dataframes, question, code, attempt, result,
                    ret, terminal, out, executed, nExec >>

\* The loop ended with an error: explain it and return failure.
ErrorResponse(llm_ok) ==
    /\ pc \in {"ExhaustedRetries", "FixFailed"}
    /\ calls' = calls \cup {"generate_error_response"}
    /\ ret' = PipelineResult(question,
                             IF llm_ok THEN "explanation"
                             ELSE "Sorry, I couldn't answer your question: " \o error,
                             Some(code), NoneV, Nothing, FALSE, error, None)
    /\ terminal' = pc
    /\ pc' = "Returned"
    /\ UNCHANGED << max_retries, max_rows, formatted, dataframes, question, code, attempt, result,
                    error, out, executed, fb, nExec, nRegen >>

\* Synthesize returning the candidate that was fed back, not the one that ran.
Synthesize_ReturnsEarlierCode(llm_ok) ==
    /\ pc = "Success"
    /\ formatted' = format_result(result, max_rows, dataframes)
    /\ IF formatted'.raised # ""
       THEN /\ calls' = calls \cup {"format_result"}
            /\ terminal' = "FormatRaised"
            /\ pc' = "FormatCrashed"
            /\ ret' = ret
       ELSE /\ calls' = calls \cup {"format_result", "generate_answer"}
            /\ ret' = PipelineResult(question,
                                     IF llm_ok THEN "answer"
                                     ELSE "Here are the results:\n\n" \o formatted'.text,
                                     IF fb = NoFb THEN Some(code) ELSE fb.previous_code,
                                     result, Some(formatted'), TRUE,
                                     None, "stage2")
            /\ terminal' = "Success"
            /\ pc' = "Returned"
    /\ UNCHANGED << max_retries, max_rows, dataframes, question, code, attempt, result,
                    error, out, executed, fb, nExec, nRegen >>

\* Synthesize that reports a failed answer synthesis as a failure of ask.
Synthesize_FailsOnSynthesisError(llm_ok) ==
    /\ pc = "Success"
    /\ formatted' = format_result(result, max_rows, dataframes)
    /\ IF formatted'.raised # ""
       THEN /\ calls' = calls \cup {"format_result"}
            /\ terminal' = "FormatRaised"
            /\ pc' = "FormatCrashed"
            /\ ret' = ret
       ELSE /\ calls' = calls \cup {"format_result", "generate_answer"}
            /\ ret' = IF llm_ok
                      THEN PipelineResult(question, "answer", Some(code), result,
                                          Some(formatted'), TRUE, None, "stage2")
                      ELSE PipelineResult(question,
                                          "Sorry, I couldn't answer your question: "
                                              \o ApiError,
                                          Some(code), result, Some(formatted'),
                                          FALSE, ApiError, "stage2")
            /\ terminal' = "Success"
            /\ pc' = "Returned"
    /\ UNCHANGED << max_retries, max_rows, dataframes, question, code, attempt, result,
                    error, out, executed, fb, nExec, nRegen >>

\* The loop ended without an error: format, synthesize and return success.
\* ask calls format_result(result), so max_rows is the default there. An
\* exception of format_result is not handled: it leaves ask.
Synthesize(llm_ok) ==
    /\ pc = "Success"
    /\ formatted' = format_result(result, max_rows, dataframes)
    /\ IF formatted'.raised # ""
       THEN /\ calls' = calls \cup {"format_result"}
            /\ terminal' = "FormatRaised"
            /\ pc' = "FormatCrashed"
            /\ ret' = ret
       ELSE /\ calls' = calls \cup {"format_result", "generate_answer"}
            /\ ret' = PipelineResult(question,
                                     IF llm_ok THEN "answer"
                                     ELSE "Here are the results:\n\n" \o formatted'.text,
                                     Some(code), result, Some(formatted'), TRUE,
                                     None, "stage2")
            /\ terminal' = "Success"
            /\ pc' = "Returned"
    /\ UNCHANGED << max_retries, max_rows, dataframes, question, code, attempt, result,
                    error, out, executed, fb, nExec, nRegen >>

Next ==
    \/ Ask
    \/ \E c \in Candidates : GenerateOk(c)
    \/ GenerateFail
    \/ Execute
    \/ \E c \in Candidates : RegenerateOk(c)
    \/ RegenerateFail
    \/ \E llm_ok \in BOOLEAN : ErrorResponse(llm_ok)
    \/ \E llm_ok \in BOOLEAN : Synthesize(llm_ok)

Spec == Init /\ [][Next]_vars

\* One execute_code call on every candidate code of the bounded language:
\* ask with a retry budget of 0, just after the generator answered.
InitExec ==
    /\ max_retries = 0
    /\ dataframes = LoadedTables
    /\ pc = "Executing"
    /\ question = 1
    /\ code \in Programs
    /\ attempt = 0
    /\ result = NoneV
    /\ error = None
    /\ ret = NoResult
    /\ terminal = ""
    /\ out = NoOut
    /\ executed = Nothing
    /\ fb = NoFb
    /\ calls = {"generate_pandas_code"}
    /\ nExec = 0
    /\ nRegen = 0
    /\ max_rows = DefaultMaxRows
    /\ formatted = NoFormat

NextExec ==
    \/ Execute
    \/ \E llm_ok \in BOOLEAN : ErrorResponse(llm_ok)
    \/ \E llm_ok \in BOOLEAN : Synthesize(llm_ok)

SpecExec == InitExec /\ [][NextExec]_vars

\* One format_result call on every value of the bounded value set, with
\* every max_rows of the bounded range and a store whose first table has
\* every size up to MaxSize.
FormatValues ==
    {NoneV, IntV(0), IntV(1), FuncV("y"),
     FloatV(0, ""), FloatV(100000, ""), FloatV(100050, ""), FloatV(314, ""),
     FloatV(0 - 150, ""), FloatV(0, "nan"), FloatV(0, "inf"), FloatV(0, "-inf")}
    \cup {SeriesV(n) : n \in 0..MaxSize}
    \cup {FrameV(t) : t \in TableNames}
    \cup {ListV(n, "") : n \in 0..MaxSize}
    \cup {ListV(n, "clients_df") : n \in 1..MaxSize}

MaxRowsArgs == ((-1)..MaxRowsArg) \cup {DefaultMaxRows}

Stores == {[LoadedTables EXCEPT !["clients_df"].rows = n] : n \in 0..MaxSize}

InitFormat ==
    /\ max_retries = 0
    /\ dataframes \in Stores
    /\ pc = "Formatting"
    /\ question = 1
    /\ code = << >>
    /\ attempt = 0
    /\ result \in FormatValues
    /\ error = None
    /\ ret = NoResult
    /\ terminal = ""
    /\ out = NoOut
    /\ executed = Nothing
    /\ fb = NoFb
    /\ calls = {}
    /\ nExec = 0
    /\ nRegen = 0
    /\ max_rows \in MaxRowsArgs
    /\ formatted = NoFormat

\* format_result(result, max_rows) is called.
FormatCall ==
    /\ pc = "Formatting"
    /\ formatted' = format_result(result, max_rows, dataframes)
    /\ calls' = calls \cup {"format_result"}
    /\ pc' = "Formatted"
    /\ UNCHANGED << max_retries, max_rows, dataframes, question, code, attempt,
                    result, error, ret, terminal, out, executed, fb, nExec,
                    nRegen >>

NextFormat == FormatCall

SpecFormat == InitFormat /\ [][NextFormat]_vars

\* ================================================================== claims

\* ----------------------------------------------------------------------- C1
\* C1 as stated: with max_retries >= 0, after each execute_code call that
\* returned, the next step is Success if it returned no error, a regeneration
\* followed by one more execution if it returned an error and fewer than
\* max_retries regenerations happened, ExhaustedRetries otherwise; so
\* execute_code runs at most max_retries + 1 times and regeneration at most
\* max_retries times.
C1_AsStated ==
    /\ [][max_retries >= 0 =>
            /\ (pc = "Executing" /\ pc' # "Crashed") =>
                    pc' = IF error' = None THEN "Success"
                          ELSE IF nRegen < max_retries THEN "Retrying"
                          ELSE "ExhaustedRetries"
            /\ pc = "Retrying" => (nRegen' = nRegen + 1 /\ pc' = "Executing")
            /\ pc = "Executing" => nExec' = nExec + 1
            /\ pc \in {"Success", "ExhaustedRetries"} =>
                    /\ nExec' = nExec
                    /\ nRegen' = nRegen
                    /\ pc' \in {"Returned", "FormatCrashed"}
                    /\ pc' = "FormatCrashed" => pc = "Success"]_vars
    /\ [](max_retries >= 0 => nExec <= max_retries + 1 /\ nRegen <= max_retries)

\* C1 amended: as C1_AsStated, except that the regeneration is followed by
\* one more execution only if the regeneration call returns; if it raises,
\* the loop is left and ask returns failure without further execution or
\* regeneration.
C1_NextStep ==
    /\ [][max_retries >= 0 =>
            /\ (pc = "Executing" /\ pc' # "Crashed") =>
                    pc' = IF error' = None THEN "Success"
                          ELSE IF nRegen < max_retries THEN "Retrying"
                          ELSE "ExhaustedRetries"
            /\ pc = "Retrying" =>
                    (nRegen' = nRegen + 1 /\ pc' \in {"Executing", "FixFailed"})
            /\ pc = "Executing" => nExec' = nExec + 1
            /\ pc \in {"Success", "ExhaustedRetries", "FixFailed"} =>
                    /\ nExec' = nExec
                    /\ nRegen' = nRegen
                    /\ pc' \in {"Returned", "FormatCrashed"}
                    /\ pc' = "FormatCrashed" => pc = "Success"]_vars
    /\ [](max_retries >= 0 => nExec <= max_retries + 1 /\ nRegen <= max_retries)

\* The budget is used up: max_retries + 1 executions, max_retries regenerations.
C1_Witness ==
    /\ pc = "ExhaustedRetries"
    /\ max_retries >= 1
    /\ nExec = max_retries + 1
    /\ nRegen = max_retries

\* ----------------------------------------------------------------------- C2
\* C2: whenever ask returns success after k >= 1 executions, k - 1
\* regenerations happened, generated_code is the code executed in attempt k,
\* raw_result is the value that attempt returned, and every regeneration call
\* received the code and the error of the execution just before it.
C2_SuccessCarriesLastAttempt ==
    /\ []((pc = "Returned" /\ terminal = "Success" /\ nExec >= 1) =>
            /\ ret.success
            /\ nExec = nRegen + 1
            /\ out.error = None
            /\ ret.generated_code = executed
            /\ ret.raw_result = out.result)
    /\ [][nRegen' = nRegen + 1 =>
            fb' = [previous_code |-> executed, error_message |-> out.error]]_vars

\* Attempt 1 raised a runtime fault, attempt 2 ran other code and succeeded.
C2_Witness ==
    /\ pc = "Returned"
    /\ terminal = "Success"
    /\ nExec = 2
    /\ fb.error_message = "NameError: name 'y' is not defined"
    /\ ret.generated_code # fb.previous_code
    /\ ret.generated_code = executed

\* ----------------------------------------------------------------------- C3
\* C3: max_retries + 1 failing executions end in ExhaustedRetries, after
\* exactly max_retries + 1 executions and max_retries regenerations; the
\* result returned has success false, the non-empty error of the last
\* execution, the last executed candidate as generated_code, no raw or
\* formatted result, and neither format_result nor generate_answer ran.
C3_ExhaustedRetries ==
    /\ (nExec = max_retries + 1 /\ out.raised = "" /\ out.error # None) =>
            \/ pc = "ExhaustedRetries"
            \/ pc = "Returned" /\ terminal = "ExhaustedRetries"
    /\ (pc = "ExhaustedRetries" \/ terminal = "ExhaustedRetries") =>
            /\ nExec = max_retries + 1
            /\ nRegen = max_retries
            /\ out.error \notin {None, ""}
            /\ "generate_answer" \notin calls
            /\ "format_result" \notin calls
    /\ (pc = "Returned" /\ terminal = "ExhaustedRetries") =>
            /\ ~ret.success
            /\ ret.error = out.error
            /\ ret.generated_code = executed
            /\ ret.raw_result = NoneV
            /\ ret.formatted_result = Nothing

\* The default budget of 2 exhausted by 3 failures.
C3_Witness ==
    /\ pc = "Returned"
    /\ terminal = "ExhaustedRetries"
    /\ max_retries = 2
    /\ nExec = 3
    /\ nRegen = 2
    /\ ~ret.success

\* ----------------------------------------------------------------------- C4
\* C4: when the initial generation call raises, ask has returned: nothing but
\* generate_pandas_code was called, and the result has success false, a
\* non-empty error and no generated_code.
C4_GenerationFailure ==
    terminal = "GenerationFailed" =>
        /\ pc = "Returned"
        /\ calls = {"generate_pandas_code"}
        /\ nExec = 0
        /\ nRegen = 0
        /\ executed = Nothing
        /\ ~ret.success
        /\ ret.error \notin {None, ""}
        /\ ret.generated_code = Nothing
        /\ ret.raw_result = NoneV
        /\ ret.question = question

\* The generator fails on the second question, after a first one that ran code.
C4_Witness ==
    /\ terminal = "GenerationFailed"
    /\ pc = "Returned"
    /\ question = 2
    /\ ret.question = 2
    /\ ~ret.success
    /\ ret.generated_code = Nothing

\* ----------------------------------------------------------------------- C5
\* C5 as stated: the pair execute_code returns has exactly one non-none
\* component.
C5_ExactlyOneAsStated ==
    (nExec >= 1 /\ out.raised = "") =>
        ((out.result = NoneV) # (out.error = None))

\* C5 amended: the pair has at most one non-none component. An error never
\* comes with a value; no error comes with a value unless the tail statement
\* is neither a single-name assignment nor a bare expression, or its value is
\* None.
C5_AtMostOne ==
    (nExec >= 1 /\ out.raised = "") =>
        /\ out.error # None => out.result = NoneV
        /\ (out.error = None /\ out.result = NoneV) =>
                LET body == AstParse(strip_imports(executed[1])).body
                IN  /\ body # << >>
                    /\ \/ body[Len(body)].kind \notin {"Assign", "Expr"}
                       \/ body[Len(body)].expr = "None"

\* Two statements ran, the tail an augmented assignment: neither value nor error.
C5_Witness ==
    /\ nExec = 1
    /\ out.raised = ""
    /\ out.error = None
    /\ out.result = NoneV
    /\ out.ran = 2
    /\ executed = Some(<< << "y", "=", "1" >>, << "y", "+=", "1" >> >>)

\* ----------------------------------------------------------------------- C6
\* C6: execute_code validates the import-normalized code before anything
\* runs: when validate_code rejects it, the validator's reason is returned,
\* no statement ran and the tables are untouched; a statement runs only in
\* code validate_code accepted, and accepted code enters the execution path.
C6_ValidateBeforeExecute ==
    nExec >= 1 =>
        LET v == validate_code(strip_imports(executed[1]))
        IN  /\ (v.raised = "" /\ ~v.is_valid) =>
                    /\ out.raised = ""
                    /\ out.result = NoneV
                    /\ out.error = v.error
                    /\ out.ran = 0
                    /\ out.dataframes = LoadedTables
            /\ out.ran > 0 => v.is_valid
            /\ out.validated = v.is_valid

\* A runnable first line followed by a line that does not parse: nothing ran.
C6_Witness ==
    /\ nExec = 1
    /\ executed = Some(<< << "clients_df", "['flag']", "=", "1" >>, << "x", "=" >> >>)
    /\ out.error = "Syntax error: invalid syntax"
    /\ out.result = NoneV
    /\ out.ran = 0
    /\ dataframes = LoadedTables

\* ----------------------------------------------------------------------- C7
\* C7: code whose text contains a deny-listed token in any casing is rejected
\* by execute_code with a reason naming a blocked pattern of the text, and
\* none of its statements runs.
C7_DenyListedIsRejected ==
    (nExec >= 1 /\ FirstBlocked(executed[1]) # 0) =>
        /\ out.raised = ""
        /\ out.result = NoneV
        /\ out.ran = 0
        /\ \E i \in 1..Len(BLOCKED_PATTERNS) :
                /\ InText(Lower(BLOCKED_PATTERNS[i]), LowerText(Flatten(executed[1])))
                /\ out.error = "Unsafe pattern detected: " \o BLOCKED_PATTERNS[i]

\* ----------------------------------------------------------------------- C8
\* C8: code ending in `x = E` returns the same (value, error) as the same
\* code ending in `E` run against the same tables.
C8_AssignTailEqualsExprTail ==
    (/\ nExec >= 1
     /\ out.raised = ""
     /\ executed[1] # << >>
     /\ Len(executed[1][Len(executed[1])]) = 3
     /\ executed[1][Len(executed[1])][1] = "x"
     /\ executed[1][Len(executed[1])][2] = "=") =>
        LET c == executed[1]
            twin == [c EXCEPT ![Len(c)] = << c[Len(c)][3] >>]
            o == execute_code(twin, LoadedTables)
        IN  /\ o.raised = ""
            /\ out.result = o.result
            /\ out.error = o.error

\* ----------------------------------------------------------------------- C9
\* C9: every table of the store has the rows and columns it was loaded with,
\* whatever code has been executed.
C9_StoreNeverWritten == dataframes = LoadedTables

\* ---------------------------------------------------------------------- C10
\* C10: execute_code never raises: every call returns its (value, error)
\* pair, and ask is never left by an exception of execute_code.
C10_NoFaultEscapes ==
    /\ nExec >= 1 => out.raised = ""
    /\ pc # "Crashed"

\* ---------------------------------------------------------------------- C11
\* C11: nothing that the code of an earlier execute_code call did is
\* observable by the code of a later call: every call of ask's loop returns
\* the pair, and works on the tables, that the same code gets when it is the
\* first code ever executed on the tables as loaded.
C11_NothingLeaksBetweenCalls ==
    (nExec >= 1 /\ out.raised = "") =>
        /\ out.result = execute_code(executed[1], LoadedTables).result
        /\ out.error = execute_code(executed[1], LoadedTables).error
        /\ out.dataframes = execute_code(executed[1], LoadedTables).dataframes

\* ---------------------------------------------------------------------- C12
\* C12: format_result returns a string for every value and every max_rows
\* and never raises, so ask is never left by an exception at its formatting
\* step.
C12_FormatResultNeverRaises ==
    /\ formatted.raised = ""
    /\ pc # "FormatCrashed"

\* ---------------------------------------------------------------------- C13
\* The number of entries of a table or labeled sequence.
SizeOf(value, tables) ==
    IF value.kind = "DataFrame" THEN tables[value.ref].rows ELSE value.int

\* The header format_result writes over a table or labeled sequence of n
\* entries: with the truncation note that names k, or without a note.
HeaderOf(value, n, k, note) ==
    (IF value.kind = "DataFrame" THEN "DataFrame with " ELSE "Series with ")
        \o ToString(n)
        \o (IF value.kind = "DataFrame" THEN " rows" ELSE " items")
        \o (IF note THEN " (showing first " \o ToString(k) \o "):" ELSE ":")

\* C13 as stated: for a table or labeled sequence of size n and any max_rows,
\* if n > max_rows the header states n and the body has exactly the first
\* max_rows entries; if n <= max_rows the body has exactly n entries and
\* there is no truncation note.
C13_AsStated ==
    (pc = "Formatted" /\ result.kind \in {"DataFrame", "Series"}) =>
        /\ formatted.raised = ""
        /\ formatted.text = HeaderOf(result, SizeOf(result, dataframes), max_rows,
                                     SizeOf(result, dataframes) > max_rows)
        /\ formatted.entries = IF SizeOf(result, dataframes) > max_rows
                               THEN max_rows ELSE SizeOf(result, dataframes)

\* C13 amended: the truncation law holds for every max_rows >= 0.
C13_TruncationLaw ==
    (pc = "Formatted" /\ result.kind \in {"DataFrame", "Series"}
        /\ max_rows >= 0) =>
        /\ formatted.raised = ""
        /\ IF SizeOf(result, dataframes) > max_rows
           THEN /\ formatted.text = HeaderOf(result, SizeOf(result, dataframes),
                                             max_rows, TRUE)
                /\ formatted.entries = max_rows
           ELSE /\ formatted.text = HeaderOf(result, SizeOf(result, dataframes),
                                             max_rows, FALSE)
                /\ formatted.entries = SizeOf(result, dataframes)

\* A labeled sequence longer than a positive max_rows was formatted.
C13_Witness ==
    /\ pc = "Formatted"
    /\ result.kind = "Series"
    /\ max_rows >= 1
    /\ result.int > max_rows
    /\ formatted.entries = max_rows

\* ---------------------------------------------------------------------- C14
\* C14: the output of format_result is bounded whatever the size of the
\* input: for every kind of value, the number of entries rendered is at most
\* max_rows (for max_rows >= 0), however many elements the value has.
C14_EntriesBoundedByMaxRows ==
    (pc = "Formatted" /\ formatted.raised = "" /\ max_rows >= 0) =>
        formatted.entries <= max_rows

\* ---------------------------------------------------------------------- C15
\* C15: when answer synthesis fails after a successful execution (the answer
\* returned is not the synthesized one), ask returns success with no error,
\* the executed code, the raw result and the formatted result; the answer is
\* the fixed lead-in followed by the formatted result text verbatim; and no
\* generation or execution happens in that step or before the next question.
C15_SynthesisFailureFallsBack ==
    /\ [][(pc = "Success" /\ pc' = "Returned" /\ ret'.answer # "answer") =>
            /\ ret'.success
            /\ ret'.error = None
            /\ ret'.question = question
            /\ ret'.generated_code = Some(code)
            /\ nExec >= 1 => executed = Some(code)
            /\ ret'.raw_result = result
            /\ nExec >= 1 => result = out.result
            /\ ret'.formatted_result
                    = Some(format_result(result, DefaultMaxRows, dataframes))
            /\ ret'.answer = "Here are the results:\n\n"
                    \o format_result(result, DefaultMaxRows, dataframes).text
            /\ nExec' = nExec
            /\ nRegen' = nRegen
            /\ dataframes' = dataframes
            /\ calls' \ calls \subseteq {"format_result", "generate_answer"}]_vars
    /\ [][(pc = "Returned" /\ terminal = "Success") =>
            (pc' = "Generating" /\ question' = question + 1)]_vars

\* ask returned the fallback answer after an execution that succeeded.
C15_Witness ==
    /\ pc = "Returned"
    /\ terminal = "Success"
    /\ nExec >= 1
    /\ ret.question = question
    /\ ret.success
    /\ ret.formatted_result # Nothing
    /\ ret.answer = "Here are the results:\n\n" \o ret.formatted_result[1].text

\* ---------------------------------------------------------------------- C16
\* The statements of code as execute_code parses them.
BodyOf(c) == AstParse(strip_imports(c)).body

\* code is validated and its tail statement is neither an assignment nor a
\* bare expression.
TailIsOther(c) ==
    /\ validate_code(strip_imports(c)).raised = ""
    /\ validate_code(strip_imports(c)).is_valid
    /\ BodyOf(c) # << >>
    /\ BodyOf(c)[Len(BodyOf(c))].kind \notin {"Assign", "AssignSubscript", "Expr"}

\* C16 as stated: when the tail statement of validated code is neither an
\* assignment nor a bare expression (import included), execute_code executes
\* the whole statement sequence exactly once and returns (none, no error);
\* ask treats this as Success without a retry, and the formatted result is
\* the fixed "No result" text.
C16_AsStated ==
    /\ [][(pc = "Executing" /\ TailIsOther(code)) =>
            /\ out'.raised = ""
            /\ out'.result = NoneV
            /\ out'.error = None
            /\ out'.ran = Len(BodyOf(code))
            /\ pc' = "Success"
            /\ nRegen' = nRegen]_vars
    /\ [][(pc = "Success" /\ nExec >= 1 /\ TailIsOther(code)) =>
            /\ pc' = "Returned"
            /\ ret'.success
            /\ ret'.raw_result = NoneV
            /\ ret'.formatted_result = Some(Formatted("No result", 0))
            /\ nExec' = nExec
            /\ nRegen' = nRegen]_vars

\* C16 amended: the same, for code none of whose statements raises; and code
\* whose tail is an import statement always comes back with an error (or
\* with the exception an earlier statement let escape), never as Success.
C16_OtherTailYieldsNoValue ==
    /\ [][(pc = "Executing" /\ TailIsOther(code)
                /\ Exec(BodyOf(code), NewEnv(dataframes)).exc = "") =>
            /\ out'.raised = ""
            /\ out'.result = NoneV
            /\ out'.error = None
            /\ out'.ran = Len(BodyOf(code))
            /\ pc' = "Success"
            /\ nRegen' = nRegen]_vars
    /\ [][(pc = "Success" /\ nExec >= 1 /\ TailIsOther(code)) =>
            /\ pc' = "Returned"
            /\ ret'.success
            /\ ret'.raw_result = NoneV
            /\ ret'.formatted_result = Some(Formatted("No result", 0))
            /\ nExec' = nExec
            /\ nRegen' = nRegen]_vars
    /\ [][(pc = "Executing" /\ TailIsOther(code)
                /\ BodyOf(code)[Len(BodyOf(code))].kind = "Import"
                /\ out'.raised = "") =>
            /\ out'.result = NoneV
            /\ out'.error # None
            /\ pc' \in {"Retrying", "ExhaustedRetries"}]_vars

\* With retries to spare, code ending in an augmented assignment ran once,
\* both statements of it, and ask returned "No result" as a success.
C16_Witness ==
    /\ pc = "Returned"
    /\ terminal = "Success"
    /\ max_retries >= 1
    /\ executed = Some(<< << "y", "=", "1" >>, << "y", "+=", "1" >> >>)
    /\ nExec = 1
    /\ nRegen = 0
    /\ out.ran = 2
    /\ ret.raw_result = NoneV
    /\ ret.formatted_result = Some(Formatted("No result", 0))

\* ---------------------------------------------------------------------- C17
\* C17: for every integer max_retries, ask returns a result with success =
\* true only after an execute_code call of that question returned no error,
\* and its raw_result is the value that call returned.
C17_SuccessOnlyAfterExecution ==
    (pc = "Returned" /\ ret.question = question /\ ret.success) =>
        /\ nExec >= 1
        /\ out.raised = ""
        /\ out.error = None
        /\ ret.raw_result = out.result
        /\ ret.generated_code = executed

\* ---------------------------------------------------------------------- C18
\* C18: when a regeneration call raises (the Retrying step does not lead to
\* an execution), the loop is left at once, whatever budget remains: nothing
\* is executed or regenerated any more, and ask returns success = false with
\* the error that reports the failed code fix in place of the execution
\* error, and with the candidate executed last as generated_code.
C18_FailedFixStopsTheLoop ==
    /\ [][(pc = "Retrying" /\ pc' # "Executing") =>
            /\ pc' = "FixFailed"
            /\ error' = "Code fix failed: " \o ApiError
            /\ error' # out.error
            /\ nRegen' = nRegen + 1
            /\ nExec' = nExec
            /\ code' = code
            /\ executed = Some(code)
            /\ dataframes' = dataframes]_vars
    /\ [][pc = "FixFailed" =>
            /\ pc' = "Returned"
            /\ terminal' = "FixFailed"
            /\ ~ret'.success
            /\ ret'.question = question
            /\ ret'.error = "Code fix failed: " \o ApiError
            /\ ret'.generated_code = executed
            /\ ret'.raw_result = NoneV
            /\ nExec' = nExec
            /\ nRegen' = nRegen
            /\ dataframes' = dataframes
            /\ calls' \ calls \subseteq {"generate_error_response"}]_vars
    /\ [][(pc = "Returned" /\ terminal = "FixFailed") =>
            (pc' = "Generating" /\ question' = question + 1)]_vars

\* The first regeneration of a budget of two raised: ask returned after one
\* execution, reporting the failed fix.
C18_Witness ==
    /\ pc = "Returned"
    /\ terminal = "FixFailed"
    /\ max_retries = 2
    /\ nExec = 1
    /\ nRegen = 1
    /\ ~ret.success
    /\ ret.error = "Code fix failed: " \o ApiError
    /\ out.error # None
    /\ ret.generated_code = executed

====
